---------------------------- MODULE Spec2Model ----------------------------
(***************************************************************************)
(* The Python-facing ExperimentList of dxtbx                               *)
(* (src/model/boost_python/experiment_list.cc) as a state machine.         *)
(*                                                                         *)
(* A model instance (Beam, Detector, ...) is a shared_ptr: it is modelled  *)
(* by its identity, a number 1..NumInst, with Null the empty pointer. Two  *)
(* instances may hold equal values (ValueOf) and still be distinct.        *)
(* An Experiment is a record of seven slots; the list is a sequence.       *)
(* `last` records the call that has just returned: its name, the list      *)
(* before it, its arguments, its result and the error it raised; Return    *)
(* hands control back to the caller, who makes the next call.              *)
(* `supplied` is the sequence of Experiments given to the constructor,     *)
(* append and extend, kept while `fresh` holds: until a call overwrites or *)
(* removes an element.                                                     *)
(***************************************************************************)
EXTENDS Integers, Sequences, FiniteSets, TLC

VARIABLES list, last, supplied, fresh

vars == <<list, last, supplied, fresh>>

---------------------------------------------------------------------------
(* Bounds of the model *)

\* longest list explored
MaxLen == 3
\* number of distinct instances of each model kind
NumInst == 2

---------------------------------------------------------------------------
(* Data *)

Null == 0

TypedKinds == {"beam", "detector", "goniometer", "scan", "crystal"}

GenericKinds == {"profile", "imageset"}

Slots == TypedKinds \cup GenericKinds

Instances == 1..NumInst

Refs == {Null} \cup Instances

\* the value an instance holds: instances 1 and 2 are equal in value, not in identity
ValueOf(r) == (r + 1) \div 2

Exp(b, d, g, s, c, p, i) ==
  [beam |-> b, detector |-> d, goniometer |-> g, scan |-> s, crystal |-> c,
   profile |-> p, imageset |-> i]

\* the Experiments a caller supplies
Pool ==
  { Exp(1, 1, 1, 1, 1, 1, 1),
    Exp(2, 1, Null, 1, 2, Null, 1),
    Exp(1, 2, 2, Null, 1, 2, 1),
    Exp(Null, 2, 1, 2, Null, 1, 2) }

SeqsUpTo(S, n) == UNION { [1..k -> S] : k \in 0..n }

NoError == "none"

---------------------------------------------------------------------------
(* dxtbx::model::ExperimentList, the container the bindings wrap *)

ExperimentList_size(self) == Len(self)

ExperimentList_append(self, e) == Append(self, e)

\* operator[] on an index inside the list
ExperimentList_at(self, n) == self[n + 1]

ExperimentList_assign(self, n, item) == [self EXCEPT ![n + 1] = item]

\* a slot of an Experiment set through its property
Experiment_set(e, K, v) == [e EXCEPT ![K] = v]

ExperimentList_erase(self, n) ==
  SubSeq(self, 1, n) \o SubSeq(self, n + 2, Len(self))

---------------------------------------------------------------------------
(* Identity index, replacement, filter and validator of ExperimentList *)

\* equality of two Python objects: None equals only None, otherwise by value
ObjectEq(a, b) == IF a = Null \/ b = Null THEN a = b ELSE ValueOf(a) = ValueOf(b)

\* whether e holds obj, as the overload chosen for an argument of type T decides
\* it: a typed overload compares its own slot by identity, the object overload
\* compares the generic slot the object belongs to by the object's equality
Experiment_contains(e, overload, T, obj) ==
  IF overload = "object" THEN ObjectEq(e[T], obj) ELSE e[overload] = obj

\* the slot an overload writes
Experiment_slot(overload, T) == IF overload = "object" THEN T ELSE overload

ExperimentList_contains(self, overload, T, obj) ==
  \E i \in 1..Len(self) : Experiment_contains(self[i], overload, T, obj)

RECURSIVE indices_scan(_, _, _, _, _, _)
indices_scan(self, overload, T, obj, i, result) ==
  IF i < Len(self)
  THEN indices_scan(self, overload, T, obj, i + 1,
         IF Experiment_contains(self[i + 1], overload, T, obj)
         THEN Append(result, i) ELSE result)
  ELSE result

ExperimentList_indices(self, overload, T, obj) ==
  indices_scan(self, overload, T, obj, 0, <<>>)

ExperimentList_replace(self, overload, T, a, b) ==
  [i \in 1..Len(self) |->
     IF Experiment_contains(self[i], overload, T, a)
     THEN [self[i] EXCEPT ![Experiment_slot(overload, T)] = b]
     ELSE self[i]]

\* an Experiment passes when every filter that is set matches its slot
where_match(e, f) ==
  /\ \A K \in TypedKinds : f[K] = Null \/ e[K] = f[K]
  /\ \A K \in GenericKinds : f[K] = Null \/ ObjectEq(e[K], f[K])

RECURSIVE where_scan(_, _, _, _)
where_scan(self, f, i, result) ==
  IF i < Len(self)
  THEN where_scan(self, f, i + 1,
         IF where_match(self[i + 1], f) THEN Append(result, i) ELSE result)
  ELSE result

ExperimentList_where(self, f) == where_scan(self, f, 0, <<>>)

\* the slots that Experiments of one imageset must share: the detector, and
\* whichever of beam and goniometer the domain policy adds
Policies == { {"detector"} \cup P : P \in SUBSET {"beam", "goniometer"} }

\* each Experiment checked on its own, never against the others of its imageset
ExperimentList_is_consistent_each(self, policy) ==
  \A i \in 1..Len(self) : \A K \in policy : self[i][K] = self[i][K]

ExperimentList_is_consistent(self, policy) ==
  \A i, j \in 1..Len(self) :
    (self[i].imageset # Null /\ self[i].imageset = self[j].imageset)
      => \A K \in policy : self[i][K] = self[j][K]

\* the other list put in front
ExperimentList_extend_front(self, other) == other \o self

ExperimentList_extend(self, other) == self \o other

ExperimentList_clear(self) == <<>>

ExperimentList_empty(self) == Len(self) = 0

---------------------------------------------------------------------------
(* The bindings *)

RECURSIVE make_loop(_, _, _)
make_loop(experiment, items, i) ==
  IF i < Len(items)
  THEN make_loop(ExperimentList_append(experiment, items[i + 1]), items, i + 1)
  ELSE experiment

\* the loop started one item late
make_experiment_list_skip_first(items) == make_loop(<<>>, items, 1)

make_experiment_list(items) == make_loop(<<>>, items, 0)

RECURSIVE getinitargs_loop(_, _, _)
getinitargs_loop(obj, i, experiments) ==
  IF i < ExperimentList_size(obj)
  THEN getinitargs_loop(obj, i + 1, Append(experiments, ExperimentList_at(obj, i)))
  ELSE experiments

\* the loop started at 1
getinitargs_from_one(obj) == <<getinitargs_loop(obj, 1, <<>>)>>

\* ExperimentListPickleSuite: the tuple of constructor arguments, one Python list
getinitargs(obj) == <<getinitargs_loop(obj, 0, <<>>)>>

\* a Python dict with no keys
EmptyDict == [k \in {} |-> Null]

to_dict(obj) == EmptyDict

\* a new ExperimentList, whatever the dict holds
from_dict(obj) == <<>>

raise_index_error == "IndexError"

\* a call's outcome: the list after it, what it returned, what it raised
Outcome(l, r, e) == [list |-> l, res |-> r, err |-> e]

\* self taken by value: the assignment lands on a copy
experiment_list_setitem_by_value(self, n, item) ==
  IF n >= ExperimentList_size(self)
  THEN Outcome(self, Null, raise_index_error)
  ELSE Outcome(self, Null, NoError)

\* the assignment made before the bounds check: it writes past the end
experiment_list_setitem_check_late(self, n, item) ==
  IF n >= ExperimentList_size(self)
  THEN Outcome(ExperimentList_append(self, item), Null, raise_index_error)
  ELSE Outcome(ExperimentList_assign(self, n, item), Null, NoError)

experiment_list_setitem(self, n, item) ==
  IF n >= ExperimentList_size(self)
  THEN Outcome(self, Null, raise_index_error)
  ELSE Outcome(ExperimentList_assign(self, n, item), Null, NoError)

experiment_list_getitem(self, n) ==
  IF n >= ExperimentList_size(self)
  THEN Outcome(self, Null, raise_index_error)
  ELSE Outcome(self, ExperimentList_at(self, n), NoError)

\* __getitem__ handing out a copy of the element
getitem_policy_copy == "copy"

\* the call policy of __getitem__: the Python object wraps the Experiment& that
\* experiment_list_getitem returns, the element inside the list
getitem_policy == "return_internal_reference"

\* the list after slot K of the object that __getitem__(n) returned is set to v
setattr_through(self, n, K, v) ==
  IF getitem_policy = "return_internal_reference"
  THEN ExperimentList_assign(self, n, Experiment_set(ExperimentList_at(self, n), K, v))
  ELSE self

\* the bounds check written with > in place of >=
experiment_list_delitem_check_gt(self, n) ==
  IF n > ExperimentList_size(self)
  THEN Outcome(self, Null, raise_index_error)
  ELSE Outcome(ExperimentList_erase(self, n), Null, NoError)

\* the element after n erased
experiment_list_delitem_next(self, n) ==
  IF n >= ExperimentList_size(self)
  THEN Outcome(self, Null, raise_index_error)
  ELSE Outcome(ExperimentList_erase(self, n + 1), Null, NoError)

experiment_list_delitem(self, n) ==
  IF n >= ExperimentList_size(self)
  THEN Outcome(self, Null, raise_index_error)
  ELSE Outcome(ExperimentList_erase(self, n), Null, NoError)

\* width of std::size_t, scaled down: every index of the model is far below 2^SizeBits
SizeBits == 8

to_size_t(x) == x % (2 ^ SizeBits)

\* the values scitbx's adapted_slice hands to the loop: a start inside
\* 0..size, a step that is not 0, and a stop on the far side of start
AdaptedSlices ==
  { as \in [start : 0..(MaxLen + 1), stop : (-1)..(MaxLen + 1), step : {-2, -1, 1, 2}] :
      /\ as.step > 0 => as.stop >= as.start
      /\ as.step < 0 => as.stop <= as.start }

RECURSIVE slice_loop(_, _, _, _)
slice_loop(self, as, i, result) ==
  IF i < to_size_t(as.stop) /\ i < ExperimentList_size(self)
  THEN slice_loop(self, as, to_size_t(i + as.step),
                  ExperimentList_append(result, ExperimentList_at(self, i)))
  ELSE result

\* the loop with a signed index: no wrap-around of i or of stop
RECURSIVE slice_loop_signed(_, _, _, _)
slice_loop_signed(self, as, i, result) ==
  IF i < as.stop /\ i < ExperimentList_size(self)
  THEN slice_loop_signed(self, as, i + as.step,
                         ExperimentList_append(result, ExperimentList_at(self, i)))
  ELSE result

experiment_list_getitem_slice_signed(self, as) ==
  Outcome(self, slice_loop_signed(self, as, as.start, <<>>), NoError)

\* the slice bounds checked the way a scalar index is
experiment_list_getitem_slice_checked(self, as) ==
  IF as.start >= ExperimentList_size(self) \/ as.stop > ExperimentList_size(self)
  THEN Outcome(self, <<>>, raise_index_error)
  ELSE Outcome(self, slice_loop(self, as, to_size_t(as.start), <<>>), NoError)

experiment_list_getitem_slice(self, as) ==
  Outcome(self, slice_loop(self, as, to_size_t(as.start), <<>>), NoError)

\* the positions the loop of the slice visits, in order
RECURSIVE slice_visits(_, _, _, _)
slice_visits(self, as, i, result) ==
  IF i < to_size_t(as.stop) /\ i < ExperimentList_size(self)
  THEN slice_visits(self, as, to_size_t(i + as.step), Append(result, i))
  ELSE result

\* the result holding the visited elements themselves
slice_shared_elements(self, as) ==
  { <<k, slice_visits(self, as, to_size_t(as.start), <<>>)[k] + 1>> :
      k \in DOMAIN slice_visits(self, as, to_size_t(as.start), <<>>) }

\* the pairs <<k, p>> such that element k of the result and element p of self
\* are one object: none, the result is a list of its own and append copies
\* self[i] into it
slice_shared(self, as) == {}

Inverse(pairs) == { <<pr[2], pr[1]>> : pr \in pairs }

\* the list mine once theirs has changed: an element the two share shows the
\* change, every other element stays
Shared(mine, theirs, pairs) ==
  [m \in 1..Len(mine) |->
     IF \E pr \in pairs : pr[1] = m /\ pr[2] <= Len(theirs)
     THEN theirs[(CHOOSE pr \in pairs : pr[1] = m /\ pr[2] <= Len(theirs))[2]]
     ELSE mine[m]]

\* the beam typedef written with the Detector signature
experiment_list_replace_pointers_beam_as_detector(T) ==
  IF T = "beam" THEN "detector" ELSE IF T \in TypedKinds THEN T ELSE "object"

\* only the object overload is reached
experiment_list_replace_pointers_object_only(T) == "object"

experiment_list_indices_pointers_object_only(T) == "object"

\* the overload each binding registers for an argument of type T
experiment_list_contains_pointers(T) == IF T \in TypedKinds THEN T ELSE "object"

experiment_list_replace_pointers(T) == IF T \in TypedKinds THEN T ELSE "object"

experiment_list_indices_pointers(T) == IF T \in TypedKinds THEN T ELSE "object"

py_contains(self, T, obj) ==
  Outcome(self,
          ExperimentList_contains(self, experiment_list_contains_pointers(T), T, obj),
          NoError)

py_replace(self, T, a, b) ==
  Outcome(ExperimentList_replace(self, experiment_list_replace_pointers(T), T, a, b),
          Null, NoError)

py_indices(self, T, obj) ==
  Outcome(self,
          ExperimentList_indices(self, experiment_list_indices_pointers(T), T, obj),
          NoError)

\* a detector default that is not the empty pointer
where_default_detector_set(K) == IF K = "detector" THEN 1 ELSE Null

\* a beam default that is not the empty pointer
where_default_beam_set(K) == IF K = "beam" THEN 1 ELSE Null

\* the default of each keyword of where: an empty pointer, or None
where_default(K) == Null

\* the keywords a caller passes: none, any one (an instance, or the empty reference
\* passed explicitly), or two instances among beam, detector and imageset
Keywords ==
  UNION ( { [D -> Refs] : D \in {{}} \cup { {k} : k \in Slots } }
          \cup { [D -> Instances] : D \in { {j, k} : j, k \in {"beam", "detector", "imageset"} } } )

where_args(kw) == [K \in Slots |-> IF K \in DOMAIN kw THEN kw[K] ELSE where_default(K)]

\* where keeping only the Experiments it selects
py_where_filtering(self, kw) ==
  Outcome([i \in 1..Len(ExperimentList_where(self, where_args(kw))) |->
             self[ExperimentList_where(self, where_args(kw))[i] + 1]],
          ExperimentList_where(self, where_args(kw)), NoError)

py_where(self, kw) == Outcome(self, ExperimentList_where(self, where_args(kw)), NoError)

py_is_consistent(self, policy) ==
  Outcome(self, ExperimentList_is_consistent(self, policy), NoError)

py_len(self) == Outcome(self, ExperimentList_size(self), NoError)

---------------------------------------------------------------------------
(* The state machine *)

Idle == [op |-> "idle", pre |-> <<>>, arg |-> Null, res |-> Null, err |-> NoError]

Call(op, arg, out) ==
  /\ last.op = "idle"
  /\ list' = out.list
  /\ last' = [op |-> op, pre |-> list, arg |-> arg, res |-> out.res, err |-> out.err]

\* a call that only reads
Query(op, arg, out) ==
  /\ Call(op, arg, out)
  /\ UNCHANGED <<supplied, fresh>>

\* a call that overwrites or removes elements
Overwrite(op, arg, out) ==
  /\ Call(op, arg, out)
  /\ fresh' = (fresh /\ out.err # NoError)
  /\ supplied' = IF fresh' THEN supplied ELSE <<>>

\* a call that adds elements at the end
Grow(op, arg, out, added) ==
  /\ Len(out.list) <= MaxLen
  /\ Call(op, arg, out)
  /\ supplied' = IF fresh THEN supplied \o added ELSE <<>>
  /\ UNCHANGED fresh

\* the state after construction from a Python sequence of Experiments
Init ==
  \E items \in SeqsUpTo(Pool, MaxLen) :
    /\ list = make_experiment_list(items)
    /\ last = Idle
    /\ supplied = items
    /\ fresh = TRUE

Return ==
  /\ last.op # "idle"
  /\ last' = Idle
  /\ UNCHANGED <<list, supplied, fresh>>

AppendItem ==
  \E e \in Pool :
    Grow("append", e, Outcome(ExperimentList_append(list, e), Null, NoError), <<e>>)

Extend ==
  \E other \in SeqsUpTo(Pool, MaxLen) :
    Grow("extend", other, Outcome(ExperimentList_extend(list, other), Null, NoError), other)

Clear == Overwrite("clear", Null, Outcome(ExperimentList_clear(list), Null, NoError))

Empty == Query("empty", Null, Outcome(list, ExperimentList_empty(list), NoError))

SizeOf == Query("len", Null, py_len(list))

SetItem ==
  \E n \in 0..(MaxLen + 1), item \in Pool :
    Overwrite("set", [n |-> n, item |-> item], experiment_list_setitem(list, n, item))

GetItem ==
  \E n \in 0..(MaxLen + 1) :
    Query("get", [n |-> n], experiment_list_getitem(list, n))

GetSlice ==
  \E as \in AdaptedSlices :
    Query("get_slice", as, experiment_list_getitem_slice(list, as))

DelItem ==
  \E n \in 0..(MaxLen + 1) :
    Overwrite("delete", [n |-> n], experiment_list_delitem(list, n))

Contains ==
  \E T \in Slots, obj \in Refs :
    Query("contains", [kind |-> T, obj |-> obj], py_contains(list, T, obj))

Indices ==
  \E T \in Slots, obj \in Refs :
    Query("indices", [kind |-> T, obj |-> obj], py_indices(list, T, obj))

\* replace is explored on every list as supplied
Replace ==
  \E T \in Slots, a \in Instances, b \in Refs :
    /\ fresh
    /\ Overwrite("replace", [kind |-> T, old |-> a, new |-> b], py_replace(list, T, a, b))

Where ==
  \E kw \in Keywords :
    Query("where", kw, py_where(list, kw))

IsConsistent ==
  \E policy \in Policies :
    Query("is_consistent", policy, py_is_consistent(list, policy))

GetInitArgs == Query("getinitargs", Null, Outcome(list, getinitargs(list), NoError))

ToDict == Query("to_dict", Null, Outcome(list, to_dict(list), NoError))

FromDict ==
  \E obj \in {to_dict(list)} :
    Query("from_dict", obj, Outcome(list, from_dict(obj), NoError))

\* a slot set on the object the last __getitem__ returned, explored on every
\* list as supplied; res is the Experiment as that object shows it
WriteThrough ==
  \E K \in Slots, v \in Refs :
    /\ last.op = "get"
    /\ last.err = NoError
    /\ fresh
    /\ list' = setattr_through(list, last.arg.n, K, v)
    /\ last' = [op |-> "write", pre |-> list,
                arg |-> [n |-> last.arg.n, kind |-> K, obj |-> v],
                res |-> Experiment_set(last.res, K, v), err |-> NoError]
    /\ fresh' = FALSE
    /\ supplied' = <<>>

\* the list a call is made on once a slice is taken: the slice result, or the
\* list it was taken from
Targets == {"result", "source"}

\* a call made after __getitem__(slice), explored on every list as supplied;
\* list is the source afterwards, res the slice result afterwards
AfterSlice(op, target, arg, onResult, onSource) ==
  /\ last.op = "get_slice"
  /\ fresh
  /\ Len(IF target = "result" THEN onResult.list ELSE onSource.list) <= MaxLen
  /\ list' = IF target = "source"
             THEN onSource.list
             ELSE Shared(list, onResult.list, Inverse(slice_shared(list, last.arg)))
  /\ last' = [op |-> op, pre |-> list,
              arg |-> [target |-> target, slice |-> last.res, change |-> arg],
              res |-> IF target = "result"
                      THEN onResult.list
                      ELSE Shared(last.res, onSource.list, slice_shared(list, last.arg)),
              err |-> IF target = "result" THEN onResult.err ELSE onSource.err]
  /\ fresh' = FALSE
  /\ supplied' = <<>>

SliceAppend ==
  \E target \in Targets, e \in Pool :
    AfterSlice("slice_append", target, e,
               Outcome(ExperimentList_append(last.res, e), Null, NoError),
               Outcome(ExperimentList_append(list, e), Null, NoError))

SliceSet ==
  \E target \in Targets, n \in 0..MaxLen, item \in Pool :
    AfterSlice("slice_set", target, [n |-> n, item |-> item],
               experiment_list_setitem(last.res, n, item),
               experiment_list_setitem(list, n, item))

SliceDelete ==
  \E target \in Targets, n \in 0..MaxLen :
    AfterSlice("slice_delete", target, [n |-> n],
               experiment_list_delitem(last.res, n),
               experiment_list_delitem(list, n))

SliceReplace ==
  \E target \in Targets, T \in {"beam", "imageset"}, a \in Instances, b \in Refs :
    AfterSlice("slice_replace", target, [kind |-> T, old |-> a, new |-> b],
               py_replace(last.res, T, a, b),
               py_replace(list, T, a, b))

\* the container: construction, growth, indexed and sliced access
NextContainer ==
  \/ AppendItem
  \/ Extend
  \/ Clear
  \/ Empty
  \/ SizeOf
  \/ SetItem
  \/ GetItem
  \/ GetSlice
  \/ DelItem
  \/ GetInitArgs
  \/ ToDict
  \/ FromDict
  \/ Return

SpecContainer == Init /\ [][NextContainer]_vars

\* the shared model instances: identity index, replacement, filter, validator
NextModels ==
  \/ Contains
  \/ Indices
  \/ Replace
  \/ Where
  \/ IsConsistent
  \/ Return

SpecModels == Init /\ [][NextModels]_vars

\* an element fetched and changed through the object that was returned
NextReference ==
  \/ GetItem
  \/ WriteThrough
  \/ Return

SpecReference == Init /\ [][NextReference]_vars

\* a slice taken, then the slice result or the source list changed
NextSlice ==
  \/ GetSlice
  \/ SliceAppend
  \/ SliceSet
  \/ SliceDelete
  \/ SliceReplace
  \/ Return

SpecSlice == Init /\ [][NextSlice]_vars

---------------------------------------------------------------------------
(* Helpers of the properties *)

Range(s) == { s[i] : i \in DOMAIN s }

RECURSIVE Ascending(_)
\* the elements of a set of numbers, smallest first
Ascending(S) ==
  IF S = {} THEN <<>>
  ELSE LET m == CHOOSE x \in S : \A y \in S : x <= y
       IN <<m>> \o Ascending(S \ {m})

StrictlyAscending(s) == \A i, j \in DOMAIN s : i < j => s[i] < s[j]

Positions(l) == 0..(Len(l) - 1)

IndexedOps == {"get", "set", "delete"}

---------------------------------------------------------------------------
(* Properties *)

\* C1: get(i), set(i, e) and delete(i) raise the out-of-range error exactly when
\* i >= size(); for i < size() they succeed and act on position i itself, so an
\* index beyond the end is never clamped to the last element.
IndexErrorIffBeyondSize ==
  last.op \in IndexedOps =>
    /\ last.err \in {NoError, raise_index_error}
    /\ (last.err = raise_index_error) <=> (last.arg.n >= Len(last.pre))
    /\ (last.op = "get" /\ last.arg.n < Len(last.pre))
         => last.res = last.pre[last.arg.n + 1]
    /\ (last.op = "set" /\ last.arg.n < Len(last.pre))
         => list[last.arg.n + 1] = last.arg.item
    /\ (last.op = "delete" /\ last.arg.n < Len(last.pre))
         => Len(list) = Len(last.pre) - 1

\* the first index beyond a non-empty list is refused by all three calls
IndexErrorAtSize ==
  /\ last.op = "delete"
  /\ Len(last.pre) > 0
  /\ last.arg.n = Len(last.pre)
  /\ last.err = raise_index_error

\* C2, as stated: after replace(B_old, B_new) for two instances of one kind,
\* indices(B_new) is what indices(B_old) was before the call, and indices(B_old) is
\* empty.
ReplaceHandsOverIndices ==
  (/\ last.op = "replace"
   /\ last.arg.kind \in TypedKinds
   /\ last.arg.new # Null
   /\ last.arg.old # last.arg.new) =>
    /\ py_indices(list, last.arg.kind, last.arg.new).res
         = py_indices(last.pre, last.arg.kind, last.arg.old).res
    /\ py_indices(list, last.arg.kind, last.arg.old).res = <<>>

\* C2, amended: for two different instances, after replace(B_old, B_new), indices(B_new)
\* is the ascending merge of what indices(B_old) and indices(B_new) were before the
\* call, and indices(B_old) is empty; with B_old = B_new the indices stay as they were.
ReplaceMergesIndices ==
  (last.op = "replace" /\ last.arg.kind \in TypedKinds /\ last.arg.new # Null) =>
    LET K == last.arg.kind
        oldBefore == py_indices(last.pre, K, last.arg.old).res
        newBefore == py_indices(last.pre, K, last.arg.new).res
    IN /\ py_indices(list, K, last.arg.new).res
            = Ascending(Range(oldBefore) \cup Range(newBefore))
       /\ last.arg.old # last.arg.new => py_indices(list, K, last.arg.old).res = <<>>
       /\ last.arg.old = last.arg.new => py_indices(list, K, last.arg.old).res = oldBefore

\* a replace whose new instance was already held by another Experiment
ReplaceOntoHeldInstance ==
  /\ last.op = "replace"
  /\ last.arg.kind = "beam"
  /\ last.arg.old # last.arg.new
  /\ Len(py_indices(last.pre, "beam", last.arg.old).res) >= 2
  /\ py_indices(last.pre, "beam", last.arg.new).res # <<>>
  /\ Len(py_indices(list, "beam", last.arg.new).res) = 3

\* C3: replace(old, new) for kind K sets the K-slot of exactly the Experiments whose
\* K-slot is identical to old; an Experiment holding another instance (equal in value
\* or not) or no instance, every slot of another kind, and the length and order of
\* the list stay as they were, and no error is raised, matches or none.
ReplaceFrame ==
  (last.op = "replace" /\ last.arg.kind \in TypedKinds) =>
    /\ last.err = NoError
    /\ Len(list) = Len(last.pre)
    /\ \A i \in 1..Len(last.pre) :
         /\ last.pre[i][last.arg.kind] = last.arg.old
              => list[i][last.arg.kind] = last.arg.new
         /\ last.pre[i][last.arg.kind] # last.arg.old => list[i] = last.pre[i]
         /\ \A J \in Slots \ {last.arg.kind} : list[i][J] = last.pre[i][J]

\* a replace that rewrites one Experiment and passes over another whose instance
\* is equal in value to old
ReplaceSkipsEqualValue ==
  /\ last.op = "replace"
  /\ last.arg.kind \in TypedKinds
  /\ \E i, j \in 1..Len(last.pre) :
       /\ last.pre[i][last.arg.kind] = last.arg.old
       /\ list[i] # last.pre[i]
       /\ last.pre[j][last.arg.kind] # last.arg.old
       /\ last.pre[j][last.arg.kind] # Null
       /\ ValueOf(last.pre[j][last.arg.kind]) = ValueOf(last.arg.old)
       /\ list[j] = last.pre[j]

\* the filters of a where call that are set
SetFilters(kw) == { K \in DOMAIN kw : kw[K] # Null }

\* C4: where(filters) is the ascending intersection of indices(f) over the filters
\* that are set; with none set it is every index 0 .. size()-1; and with two filters
\* it is the intersection of where(f1) and where(f2).
WhereIsIntersection ==
  last.op = "where" =>
    /\ last.err = NoError
    /\ last.res = Ascending({ i \in Positions(last.pre) :
                     \A K \in SetFilters(last.arg) :
                       i \in Range(py_indices(last.pre, K, last.arg[K]).res) })
    /\ SetFilters(last.arg) = {} => last.res = Ascending(Positions(last.pre))
    /\ \A J, K \in DOMAIN last.arg :
         J # K => Range(last.res)
                    = Range(py_where(last.pre, [x \in {J} |-> last.arg[J]]).res)
                      \cap Range(py_where(last.pre, [x \in {K} |-> last.arg[K]]).res)

\* two filters that each select more than the two together do
WhereNarrowsBothFilters ==
  /\ last.op = "where"
  /\ DOMAIN last.arg = {"beam", "detector"}
  /\ last.res # <<>>
  /\ Len(last.res) < Len(py_indices(last.pre, "beam", last.arg["beam"]).res)
  /\ Len(last.res) < Len(py_indices(last.pre, "detector", last.arg["detector"]).res)

\* C5: indices(R) lists, in ascending order and once each, exactly the positions whose
\* K-slot is identical to R, and contains(R) is true exactly when that list is not
\* empty; an instance equal in value to R but distinct from it is not a match.
IndicesAreIdentityMatches ==
  /\ (last.op = "indices" /\ last.arg.kind \in TypedKinds) =>
       /\ StrictlyAscending(last.res)
       /\ Range(last.res)
            = { i \in Positions(last.pre) : last.pre[i + 1][last.arg.kind] = last.arg.obj }
  /\ (last.op = "contains" /\ last.arg.kind \in TypedKinds) =>
       last.res = (py_indices(last.pre, last.arg.kind, last.arg.obj).res # <<>>)

\* one Experiment holds beam R, another a beam equal in value to R: one index
IndicesSkipsEqualValue ==
  /\ last.op = "indices"
  /\ last.arg.kind = "beam"
  /\ Len(last.res) = 1
  /\ \E j \in 1..Len(last.pre) :
       /\ last.pre[j].beam # last.arg.obj
       /\ last.pre[j].beam # Null
       /\ ValueOf(last.pre[j].beam) = ValueOf(last.arg.obj)

\* C6: delete(i) with i < size() makes the list one shorter, keeps the elements
\* before i in place and moves each element after i down by one.
DeleteShiftsDown ==
  (last.op = "delete" /\ last.err = NoError) =>
    /\ py_len(list).res = py_len(last.pre).res - 1
    /\ \A j \in Positions(last.pre) :
         /\ j < last.arg.n => list[j + 1] = last.pre[j + 1]
         /\ j > last.arg.n => list[j] = last.pre[j + 1]

\* an element deleted from the middle of three different ones
DeleteFromMiddle ==
  /\ last.op = "delete"
  /\ last.err = NoError
  /\ Len(last.pre) = 3
  /\ last.arg.n = 1
  /\ last.pre[1] # last.pre[2]
  /\ last.pre[2] # last.pre[3]
  /\ list = <<last.pre[1], last.pre[3]>>

\* C7: after set(i, e) with i < size(), get(i) returns e, size() is unchanged and
\* every other position holds what it held.
SetThenGet ==
  (last.op = "set" /\ last.err = NoError) =>
    /\ experiment_list_getitem(list, last.arg.n).err = NoError
    /\ experiment_list_getitem(list, last.arg.n).res = last.arg.item
    /\ py_len(list).res = py_len(last.pre).res
    /\ \A j \in Positions(last.pre) : j # last.arg.n => list[j + 1] = last.pre[j + 1]

\* a set that changes the middle one of three elements
SetChangesMiddle ==
  /\ last.op = "set"
  /\ last.err = NoError
  /\ Len(last.pre) = 3
  /\ last.arg.n = 1
  /\ last.pre[2] # last.arg.item
  /\ list[2] = last.arg.item

RECURSIVE ManualSteps(_, _, _)
\* L[i] for i = a, a+c, ... while i < b and i < size(L), in plain integers
ManualSteps(L, s, i) ==
  IF i < s.stop /\ i < Len(L)
  THEN <<L[i + 1]>> \o ManualSteps(L, s, i + s.step)
  ELSE <<>>

RECURSIVE UnsignedSteps(_, _, _)
\* L[i] for i = a, a+c, ... while i is a position of L and, unless b is negative, i < b
UnsignedSteps(L, s, i) ==
  IF 0 <= i /\ i < Len(L) /\ (s.stop < 0 \/ i < s.stop)
  THEN <<L[i + 1]>> \o UnsignedSteps(L, s, i + s.step)
  ELSE <<>>

\* C8, as stated: get_slice(a, b, c) returns, in order, L[i] for i = a, a+c, a+2c, ...
\* visited while i < b and i < size(L).
SliceIsManualStepping ==
  last.op = "get_slice" => last.res = ManualSteps(last.pre, last.arg, last.arg.start)

\* C8, amended: get_slice(a, b, c) returns, in order, L[i] for i = a, a+c, a+2c, ...
\* visited while 0 <= i < size(L) and, when b >= 0, i < b: the index and b are
\* compared as unsigned words, so a negative b sets no limit and a walk with a
\* negative step ends below position 0.
SliceIsUnsignedStepping ==
  last.op = "get_slice" =>
    /\ last.err = NoError
    /\ last.res = UnsignedSteps(last.pre, last.arg, last.arg.start)

\* the slice [::-1] of three elements: start 2, stop -1, step -1
SliceReversed ==
  /\ last.op = "get_slice"
  /\ Len(last.pre) = 3
  /\ last.arg = [start |-> 2, stop |-> -1, step |-> -1]
  /\ last.res = <<last.pre[3], last.pre[2], last.pre[1]>>
  /\ last.pre[1] # last.pre[3]

\* C9: after n Experiments were given to the constructor and to append, in order,
\* size() is n and get(i) returns the i-th of them.
SuppliedInOrder ==
  fresh =>
    /\ py_len(list).res = Len(supplied)
    /\ \A i \in Positions(supplied) :
         /\ experiment_list_getitem(list, i).err = NoError
         /\ experiment_list_getitem(list, i).res = supplied[i + 1]

\* two Experiments constructed, a different third appended
ConstructedThenAppended ==
  /\ fresh
  /\ last.op = "append"
  /\ Len(last.pre) = 2
  /\ last.pre[1] # last.pre[2]
  /\ last.arg # last.pre[2]
  /\ Len(list) = 3

\* two Experiments of one imageset that hold two different detector instances
DetectorClash(l) ==
  \E i, j \in 1..Len(l) :
    /\ l[i].imageset # Null
    /\ l[i].imageset = l[j].imageset
    /\ l[i].detector # Null
    /\ l[j].detector # Null
    /\ l[i].detector # l[j].detector

\* C10: when two Experiments of one imageset hold two different detector instances,
\* is_consistent() returns false; it raises nothing.
ClashIsReportedFalse ==
  last.op = "is_consistent" =>
    /\ last.err = NoError
    /\ DetectorClash(last.pre) => last.res = FALSE

\* a list of two Experiments with one imageset and two detectors, found inconsistent
TwoDetectorsOneImageset ==
  /\ last.op = "is_consistent"
  /\ Len(last.pre) = 2
  /\ DetectorClash(last.pre)
  /\ last.res = FALSE

QueryOps == {"is_consistent", "contains", "indices", "where"}

\* C11: is_consistent, contains, indices and where leave the collection as it was:
\* the same Experiments in the same order, every slot of each unchanged.
QueriesLeaveList ==
  last.op \in QueryOps =>
    /\ Len(list) = Len(last.pre)
    /\ \A i \in 1..Len(last.pre) : \A K \in Slots : list[i][K] = last.pre[i][K]

\* a where call that selects some Experiments of the list and not others
WhereSelectsSome ==
  /\ last.op = "where"
  /\ last.res # <<>>
  /\ Len(last.res) < Len(last.pre)
  /\ list = last.pre

\* C12: after L.extend(other), L is what it was followed by the elements of other in
\* other's order: size(L) grows by size(other) and every element keeps its position.
ExtendAppendsInOrder ==
  last.op = "extend" =>
    /\ py_len(list).res = py_len(last.pre).res + Len(last.arg)
    /\ \A i \in 1..Len(last.pre) : list[i] = last.pre[i]
    /\ \A i \in 1..Len(last.arg) : list[Len(last.pre) + i] = last.arg[i]

\* a list of one element extended by two different ones
ExtendByTwo ==
  /\ last.op = "extend"
  /\ Len(last.pre) = 1
  /\ Len(last.arg) = 2
  /\ last.arg[1] # last.arg[2]
  /\ last.arg[1] # last.pre[1]
  /\ Len(list) = 3

\* C13: get_slice raises no out-of-range error whatever start and stop are, also at
\* or beyond size(): it returns a list, empty when start is beyond the end, where
\* get(start) raises.
SliceNeverRaises ==
  last.op = "get_slice" =>
    /\ last.err = NoError
    /\ Len(last.res) <= Len(last.pre)
    /\ last.arg.start >= Len(last.pre) =>
         /\ last.res = <<>>
         /\ experiment_list_getitem(last.pre, last.arg.start).err = raise_index_error

\* a slice that starts at size() and stops beyond it
SliceBeyondEnd ==
  /\ last.op = "get_slice"
  /\ Len(last.pre) > 0
  /\ last.arg.start = Len(last.pre)
  /\ last.arg.stop > Len(last.pre)
  /\ last.err = NoError
  /\ last.res = <<>>

\* where with one keyword left out
Without(kw, K) == [J \in DOMAIN kw \ {K} |-> kw[J]]

\* C18: in where, the empty reference passed for a typed filter is the same as the
\* filter left out: the result is that of the call without it, and the Experiments
\* whose slot of that kind is absent are not singled out.
AbsentFilterIsUnset ==
  last.op = "where" =>
    \A K \in DOMAIN last.arg \cap TypedKinds :
      last.arg[K] = Null =>
        /\ last.res = py_where(last.pre, Without(last.arg, K)).res
        /\ DOMAIN last.arg = {K} => last.res = Ascending(Positions(last.pre))

\* where(beam = empty reference) on a list where one Experiment has a beam and
\* another has none: both are returned
AbsentBeamFilter ==
  /\ last.op = "where"
  /\ DOMAIN last.arg = {"beam"}
  /\ last.arg["beam"] = Null
  /\ \E i, j \in 1..Len(last.pre) : last.pre[i].beam = Null /\ last.pre[j].beam # Null
  /\ Len(last.res) = Len(last.pre)

\* C19: a get, set or delete that raises the out-of-range error leaves the list as it
\* was: the same size, the same Experiments in the same order.
FailedIndexLeavesList ==
  (last.op \in IndexedOps /\ last.err = raise_index_error) =>
    /\ py_len(list).res = py_len(last.pre).res
    /\ \A i \in 1..Len(last.pre) : list[i] = last.pre[i]

\* a set beyond the end of a list of two
SetBeyondEnd ==
  /\ last.op = "set"
  /\ Len(last.pre) = 2
  /\ last.arg.n > Len(last.pre)
  /\ last.err = raise_index_error
  /\ list = last.pre

\* C16: a list constructed from the arguments the pickling hook gives for L has the
\* size of L and its Experiments in the same order; the arguments are one sequence,
\* the Experiments of L.
PickleRoundTrip ==
  last.op = "getinitargs" =>
    /\ Len(last.res) = 1
    /\ Len(make_experiment_list(last.res[1])) = Len(last.pre)
    /\ \A i \in 1..Len(last.pre) : make_experiment_list(last.res[1])[i] = last.pre[i]

\* the pickling hook called on three Experiments, the first and last different
PickleOfThree ==
  /\ last.op = "getinitargs"
  /\ Len(last.pre) = 3
  /\ last.pre[1] # last.pre[3]
  /\ Len(last.res[1]) = 3

\* C17: from_dict applied to to_dict(L) is a list of the size of L with the
\* Experiments of L in the same order.
DictRoundTrip ==
  last.op = "to_dict" =>
    /\ Len(from_dict(last.res)) = Len(last.pre)
    /\ \A i \in 1..Len(last.pre) : from_dict(last.res)[i] = last.pre[i]

\* C14: get(i) returns the stored Experiment itself, not a copy. Once a slot K
\* of the object returned by get(n) has been set to v, a later get(n) returns the
\* Experiment with that change (and the object and the list show the same
\* Experiment), contains(v) is true, indices(v) and where(K = v) list n, and the
\* other positions are as they were.
WriteIsSeenInList ==
  last.op = "write" =>
    LET n == last.arg.n
        K == last.arg.kind
        v == last.arg.obj
    IN /\ experiment_list_getitem(list, n).err = NoError
       /\ experiment_list_getitem(list, n).res[K] = v
       /\ experiment_list_getitem(list, n).res = last.res
       /\ py_contains(list, K, v).res
       /\ n \in Range(py_indices(list, K, v).res)
       /\ n \in Range(py_where(list, [J \in {K} |-> v]).res)
       /\ Len(list) = Len(last.pre)
       /\ \A m \in Positions(list) \ {n} : list[m + 1] = last.pre[m + 1]

\* a beam that no Experiment of the list held is set through the object returned
\* by get(1) on a list of three
WriteNewBeam ==
  /\ last.op = "write"
  /\ Len(last.pre) = 3
  /\ last.arg.n = 1
  /\ last.arg.kind = "beam"
  /\ last.arg.obj # Null
  /\ ~py_contains(last.pre, "beam", last.arg.obj).res
  /\ py_indices(list, "beam", last.arg.obj).res = <<1>>

SliceOps == {"slice_append", "slice_set", "slice_delete", "slice_replace"}

\* C15: get_slice returns a new list of copies. The call leaves the source list
\* as it was; an append, set, delete or replace made on the slice result leaves
\* the source list as it was, elements and slots; one made on the source list
\* leaves the slice result as it was.
SliceIsDetached ==
  /\ last.op = "get_slice" => list = last.pre
  /\ (last.op \in SliceOps /\ last.arg.target = "result") => list = last.pre
  /\ (last.op \in SliceOps /\ last.arg.target = "source") => last.res = last.arg.slice

\* replace re-points a beam in both Experiments of a slice taken from a list of
\* three that holds that beam too
SliceResultReplaced ==
  /\ last.op = "slice_replace"
  /\ last.arg.target = "result"
  /\ last.arg.change.kind = "beam"
  /\ Len(last.pre) = 3
  /\ Len(last.arg.slice) = 2
  /\ \A k \in 1..2 : last.res[k] # last.arg.slice[k]
  /\ py_contains(list, "beam", last.arg.change.old).res

====
